---- MODULE Spec2Model ----
(***************************************************************************)
(* Model of the 100xSWE job pipeline: the primary backend's queue routes   *)
(* (POST /api/chat, GET /api/status/:jobId), the BullMQ worker            *)
(* (concurrency 2) and JobProcessor.process, the twelve-step pipeline     *)
(* with its progress checkpoints and its catch/cleanup/re-throw.          *)
(*                                                                         *)
(* JavaScript runs each handler to its next await without interleaving,   *)
(* so one action is the code from one await's settlement to the next      *)
(* await: a pending call settles (returns or throws) and the code that    *)
(* follows runs up to, and including, the invocation of the next call.    *)
(***************************************************************************)
EXTENDS Integers, Sequences, FiniteSets, TLC

(* ---------------------------- bounds ---------------------------------- *)
\* Spec: number of jobs ever enqueued, and number of awaited calls that may
\* throw in one behaviour
MaxJobs == 2
MaxFaults == 2
\* PoolSpec: the same two bounds for the behaviours with more jobs than slots
PoolMaxJobs == 3
PoolMaxFaults == 1
\* ApiSpec: the same two bounds for the behaviours with status requests
ApiMaxJobs == 1
ApiMaxFaults == 1
\* WebhookSpec: the most jobs webhook deliveries enqueue in one behaviour
MaxWebhookJobs == 2
\* StallSpec: the most jobs and the most throwing calls in one behaviour
StallMaxJobs == 3
StallMaxFaults == 1
\* AuthSpec: the most pieces an Authorization header has
MaxHeaderLen == 3

(* ------------------------- program constants --------------------------- *)
\* new Worker('worker-job', ..., { connection, concurrency: 2 })
Concurrency == 2

MaxOf(a, b) == IF a >= b THEN a ELSE b

\* the job ids of the model: the queue counts them up from 1
JobIds == 1..MaxOf(MaxJobs, MaxOf(PoolMaxJobs, MaxOf(ApiMaxJobs, StallMaxJobs)))

\* one sandbox id for every job
projectIdShared(id) == <<"job", 0>>

\* const projectId = `job-${job.id}`
projectId(id) == <<"job", id>>

ProjectIds == {projectId(id) : id \in JobIds}

(* --------------------------- request values ---------------------------- *)
Undefined == [t |-> "undefined"]
Str(s) == [t |-> "string", s |-> s]

RepoUrl == Str("https://github.com/acme/widget")
Task == Str("add a LICENSE file")

\* values req.body.repoUrl and req.body.task can take
RepoUrlValues == {Undefined, Str(""), RepoUrl}
TaskValues == {Undefined, Str(""), Task}

\* a validation that tests only for a missing field
FalsyUndefinedOnly(v) == v.t = "undefined"

\* JavaScript's !v for the values above
Falsy(v) == v.t = "undefined" \/ (v.t = "string" /\ v.s = "")

(* --------------------------- the pipeline ------------------------------ *)
\* the pipeline with the checkpoint 30 recorded after the clone instead of before
PipelineCheckpointAfterClone == <<
  [kind |-> "progress", op |-> "updateProgress",        v |-> 10],
  [kind |-> "call",     op |-> "ensureFork",            v |-> 0],
  [kind |-> "progress", op |-> "updateProgress",        v |-> 20],
  [kind |-> "call",     op |-> "getOrCreateSandbox",    v |-> 0],
  [kind |-> "call",     op |-> "cloneRepository",       v |-> 0],
  [kind |-> "progress", op |-> "updateProgress",        v |-> 30],
  [kind |-> "progress", op |-> "updateProgress",        v |-> 40],
  [kind |-> "call",     op |-> "findRelevantFiles",     v |-> 0],
  [kind |-> "call",     op |-> "selectFilesToModify",   v |-> 0],
  [kind |-> "progress", op |-> "updateProgress",        v |-> 60],
  [kind |-> "call",     op |-> "getFileContents",       v |-> 0],
  [kind |-> "call",     op |-> "getFileTree",           v |-> 0],
  [kind |-> "progress", op |-> "updateProgress",        v |-> 70],
  [kind |-> "call",     op |-> "generateCodeChanges",   v |-> 0],
  [kind |-> "progress", op |-> "updateProgress",        v |-> 80],
  [kind |-> "call",     op |-> "executeFileOperations", v |-> 0],
  [kind |-> "call",     op |-> "runShellCommands",      v |-> 0],
  [kind |-> "progress", op |-> "updateProgress",        v |-> 90],
  [kind |-> "call",     op |-> "commitAndPush",         v |-> 0],
  [kind |-> "call",     op |-> "createPullRequest",     v |-> 0],
  [kind |-> "progress", op |-> "updateProgress",        v |-> 100],
  [kind |-> "call",     op |-> "cleanup",               v |-> 0] >>

\* the pipeline with the checkpoints of steps 6 and 7 exchanged
PipelineSwappedCheckpoints == <<
  [kind |-> "progress", op |-> "updateProgress",        v |-> 10],
  [kind |-> "call",     op |-> "ensureFork",            v |-> 0],
  [kind |-> "progress", op |-> "updateProgress",        v |-> 20],
  [kind |-> "call",     op |-> "getOrCreateSandbox",    v |-> 0],
  [kind |-> "progress", op |-> "updateProgress",        v |-> 30],
  [kind |-> "call",     op |-> "cloneRepository",       v |-> 0],
  [kind |-> "progress", op |-> "updateProgress",        v |-> 40],
  [kind |-> "call",     op |-> "findRelevantFiles",     v |-> 0],
  [kind |-> "call",     op |-> "selectFilesToModify",   v |-> 0],
  [kind |-> "progress", op |-> "updateProgress",        v |-> 70],
  [kind |-> "call",     op |-> "getFileContents",       v |-> 0],
  [kind |-> "call",     op |-> "getFileTree",           v |-> 0],
  [kind |-> "progress", op |-> "updateProgress",        v |-> 60],
  [kind |-> "call",     op |-> "generateCodeChanges",   v |-> 0],
  [kind |-> "progress", op |-> "updateProgress",        v |-> 80],
  [kind |-> "call",     op |-> "executeFileOperations", v |-> 0],
  [kind |-> "call",     op |-> "runShellCommands",      v |-> 0],
  [kind |-> "progress", op |-> "updateProgress",        v |-> 90],
  [kind |-> "call",     op |-> "commitAndPush",         v |-> 0],
  [kind |-> "call",     op |-> "createPullRequest",     v |-> 0],
  [kind |-> "progress", op |-> "updateProgress",        v |-> 100],
  [kind |-> "call",     op |-> "cleanup",               v |-> 0] >>

\* The awaited calls of the try block, in program order.
\* kind "progress" is job.updateProgress(v); kind "call" is a collaborator call.
Pipeline == <<
  [kind |-> "progress", op |-> "updateProgress",        v |-> 10],
  [kind |-> "call",     op |-> "ensureFork",            v |-> 0],
  [kind |-> "progress", op |-> "updateProgress",        v |-> 20],
  [kind |-> "call",     op |-> "getOrCreateSandbox",    v |-> 0],
  [kind |-> "progress", op |-> "updateProgress",        v |-> 30],
  [kind |-> "call",     op |-> "cloneRepository",       v |-> 0],
  [kind |-> "progress", op |-> "updateProgress",        v |-> 40],
  [kind |-> "call",     op |-> "findRelevantFiles",     v |-> 0],
  [kind |-> "call",     op |-> "selectFilesToModify",   v |-> 0],
  [kind |-> "progress", op |-> "updateProgress",        v |-> 60],
  [kind |-> "call",     op |-> "getFileContents",       v |-> 0],
  [kind |-> "call",     op |-> "getFileTree",           v |-> 0],
  [kind |-> "progress", op |-> "updateProgress",        v |-> 70],
  [kind |-> "call",     op |-> "generateCodeChanges",   v |-> 0],
  [kind |-> "progress", op |-> "updateProgress",        v |-> 80],
  [kind |-> "call",     op |-> "executeFileOperations", v |-> 0],
  [kind |-> "call",     op |-> "runShellCommands",      v |-> 0],
  [kind |-> "progress", op |-> "updateProgress",        v |-> 90],
  [kind |-> "call",     op |-> "commitAndPush",         v |-> 0],
  [kind |-> "call",     op |-> "createPullRequest",     v |-> 0],
  [kind |-> "progress", op |-> "updateProgress",        v |-> 100],
  [kind |-> "call",     op |-> "cleanup",               v |-> 0] >>

NSteps == Len(Pipeline)

\* positions of process(): 0 = not running, 1..NSteps = awaiting that step of
\* the try block, CatchPc = in the catch block, awaiting cleanup
CatchPc == NSteps + 1

\* values generation.shellCommands can take
ShellValues == {"undefined", "empty", "nonempty"}

\* a test of the list being there, whatever its length
HasShellCommandsPresent(sc) == sc # "undefined"

\* if (generation.shellCommands && generation.shellCommands.length > 0)
HasShellCommands(sc) == sc = "nonempty"

\* the step awaited after step k has returned
NextStep(k, sc) ==
  IF Pipeline[k].op = "executeFileOperations" /\ ~HasShellCommands(sc)
  THEN k + 2
  ELSE k + 1

\* an error thrown by the n-th call of op made by one run
Err(opname, n) == [op |-> opname, n |-> n]

NoError == [op |-> "none", n |-> 0]

NoResult == [success |-> FALSE, prUrl |-> <<"pull", 0>>, prNumber |-> 0]

NoResponse == [route |-> "none", status |-> 0]

NoRequest == [jobId |-> 0]

VARIABLES
  nextId,        \* the queue's id counter: the id the next added job gets
  state,         \* job id -> "none" | "waiting" | "active" | "completed" | "failed"
  data,          \* job id -> job.data
  progress,      \* job id -> job.progress
  returnvalue,   \* job id -> job.returnvalue
  failedReason,  \* job id -> job.failedReason
  pc,            \* job id -> position of process(job)
  caught,        \* job id -> the error caught by process's catch block
  shellCommands, \* job id -> generation.shellCommands of the run
  pr,            \* job id -> the pr returned by createPullRequest
  hist,          \* job id -> the progress values recorded, in order
  calls,         \* job id -> the collaborator calls invoked by its run, in order
  cleanups,      \* project id -> number of sandboxService.cleanup calls
  runs,          \* job id -> number of times process(job) was invoked
  faults,        \* number of calls that threw so far
  statusReq,     \* the GET /api/status request in flight, with the job it loaded
  resp,          \* the HTTP exchange completed by the step just taken, if any
  observed,      \* job id -> the progress the last status response reported
  indexingQueue, \* the jobs enqueued by webhook deliveries, in order
  sandboxes,     \* project id -> the sandbox of that id in the sandbox service
  branch,        \* job id -> the branch name of its run and where it was used
  generated,     \* number of branch names generated so far
  stalled        \* the jobs whose awaited call never settles

vars == <<nextId, state, data, progress, returnvalue, failedReason, pc, caught,
          shellCommands, pr, hist, calls, cleanups, runs, faults, statusReq, resp, observed, indexingQueue,
                 sandboxes, branch, generated, stalled>>

jobVars == <<nextId, state, data, progress, returnvalue, failedReason>>
runVars == <<pc, caught, shellCommands, pr, hist, calls, cleanups, runs, faults>>

NoSandbox == [live |-> FALSE, by |-> {}]
NoBranch == [generated |-> 0, name |-> 0, pushed |-> 0, head |-> 0]
NoData == [repoUrl |-> Undefined, task |-> Undefined]
NoPr == [url |-> <<"pull", 0>>, number |-> 0]

Init ==
  /\ nextId = 1
  /\ state = [j \in JobIds |-> "none"]
  /\ data = [j \in JobIds |-> NoData]
  /\ progress = [j \in JobIds |-> 0]
  /\ returnvalue = [j \in JobIds |-> NoResult]
  /\ failedReason = [j \in JobIds |-> NoError]
  /\ pc = [j \in JobIds |-> 0]
  /\ caught = [j \in JobIds |-> NoError]
  /\ shellCommands = [j \in JobIds |-> "undefined"]
  /\ pr = [j \in JobIds |-> NoPr]
  /\ hist = [j \in JobIds |-> << >>]
  /\ calls = [j \in JobIds |-> << >>]
  /\ cleanups = [p \in ProjectIds |-> 0]
  /\ runs = [j \in JobIds |-> 0]
  /\ faults = 0
  /\ statusReq = NoRequest
  /\ resp = NoResponse
  /\ observed = [j \in JobIds |-> 0]
  /\ indexingQueue = << >>
  /\ sandboxes = [p \in ProjectIds |-> NoSandbox]
  /\ branch = [j \in JobIds |-> NoBranch]
  /\ generated = 0
  /\ stalled = {}

(* ------------------------- primary backend ----------------------------- *)
\* a queue that hands out the same id again
PostChatReusesId(repoUrl, task, addThrows) ==
  /\ IF Falsy(repoUrl) \/ Falsy(task)
     THEN /\ resp' = [route |-> "chat", req |-> [repoUrl |-> repoUrl, task |-> task],
                      status |-> 400, error |-> "Missing repoUrl or task"]
          /\ UNCHANGED jobVars
     ELSE IF addThrows
     THEN /\ resp' = [route |-> "chat", req |-> [repoUrl |-> repoUrl, task |-> task],
                      status |-> 500, error |-> "add failed"]
          /\ UNCHANGED jobVars
     ELSE /\ state' = [state EXCEPT ![nextId] = "waiting"]
          /\ data' = [data EXCEPT ![nextId] = [repoUrl |-> repoUrl, task |-> task]]
          /\ nextId' = nextId
          /\ resp' = [route |-> "chat", req |-> [repoUrl |-> repoUrl, task |-> task],
                      status |-> 202, message |-> "Task queued", jobId |-> nextId,
                      statusUrl |-> <<"/api/status/", nextId>>]
          /\ UNCHANGED <<progress, returnvalue, failedReason>>
  /\ UNCHANGED <<runVars, statusReq, observed, indexingQueue,
                 sandboxes, branch, generated, stalled>>

\* app.post('/api/chat'): 400 on a missing field, else chatQueue.add and 202;
\* a throwing chatQueue.add is answered 500
PostChat(repoUrl, task, addThrows) ==
  /\ IF Falsy(repoUrl) \/ Falsy(task)
     THEN /\ resp' = [route |-> "chat", req |-> [repoUrl |-> repoUrl, task |-> task],
                      status |-> 400, error |-> "Missing repoUrl or task"]
          /\ UNCHANGED jobVars
     ELSE IF addThrows
     THEN /\ resp' = [route |-> "chat", req |-> [repoUrl |-> repoUrl, task |-> task],
                      status |-> 500, error |-> "add failed"]
          /\ UNCHANGED jobVars
     ELSE /\ state' = [state EXCEPT ![nextId] = "waiting"]
          /\ data' = [data EXCEPT ![nextId] = [repoUrl |-> repoUrl, task |-> task]]
          /\ nextId' = nextId + 1
          /\ resp' = [route |-> "chat", req |-> [repoUrl |-> repoUrl, task |-> task],
                      status |-> 202, message |-> "Task queued", jobId |-> nextId,
                      statusUrl |-> <<"/api/status/", nextId>>]
          /\ UNCHANGED <<progress, returnvalue, failedReason>>
  /\ UNCHANGED <<runVars, statusReq, observed, indexingQueue,
                 sandboxes, branch, generated, stalled>>

\* app.get('/api/status/:jobId') up to `await job.getState()`:
\* chatQueue.getJob loads the job (its progress and returnvalue as stored at
\* that moment); an unknown id is answered 404, a throwing getJob 500
GetStatusLoad(jobId, getJobThrows) ==
  /\ statusReq = NoRequest
  /\ IF getJobThrows
     THEN /\ resp' = [route |-> "status", req |-> [jobId |-> jobId],
                      status |-> 500, error |-> "getJob failed"]
          /\ statusReq' = statusReq
     ELSE IF jobId \notin JobIds \/ state[jobId] = "none"
     THEN /\ resp' = [route |-> "status", req |-> [jobId |-> jobId],
                      status |-> 404, error |-> "Job not found"]
          /\ statusReq' = statusReq
     ELSE /\ resp' = NoResponse
          /\ statusReq' = [jobId |-> jobId, progress |-> progress[jobId],
                           returnvalue |-> returnvalue[jobId]]
  /\ UNCHANGED <<jobVars, runVars, observed, indexingQueue,
                 sandboxes, branch, generated, stalled>>

\* app.get('/api/status/:jobId') from the settlement of job.getState(): the
\* response carries the state read now and the progress and result loaded
\* by getJob
GetStatusRespond(getStateThrows) ==
  /\ statusReq # NoRequest
  /\ resp' = IF getStateThrows
             THEN [route |-> "status", req |-> [jobId |-> statusReq.jobId],
                   status |-> 500, error |-> "getState failed"]
             ELSE [route |-> "status", req |-> [jobId |-> statusReq.jobId],
                   status |-> 200, jobId |-> statusReq.jobId,
                   state |-> state[statusReq.jobId],
                   progress |-> statusReq.progress,
                   result |-> statusReq.returnvalue]
  /\ observed' = IF getStateThrows THEN observed
                 ELSE [observed EXCEPT ![statusReq.jobId] = statusReq.progress]
  /\ statusReq' = NoRequest
  /\ UNCHANGED <<jobVars, runVars, indexingQueue,
                 sandboxes, branch, generated, stalled>>

(* ------------------------------ worker --------------------------------- *)
active == {j \in JobIds : state[j] = "active"}
waiting == {j \in JobIds : state[j] = "waiting"}

\* a slot test that is off by one
HasFreeSlotOffByOne == Cardinality(active) <= Concurrency

\* a worker whose slots are not given back when a run ends
HasFreeSlotNeverReleased ==
  Cardinality({j \in JobIds : state[j] \in {"active", "completed", "failed"}})
    < Concurrency

\* the worker takes a job only while fewer than `concurrency` are running
HasFreeSlot == Cardinality(active) < Concurrency

\* a queue that hands failed jobs out again
ClaimableWithFailed ==
  {j \in JobIds : state[j] \in {"waiting", "failed"} /\
                  \A k \in JobIds : state[k] \in {"waiting", "failed"} => j <= k}

\* a queue that hands out any waiting job
ClaimableAny == waiting

\* a queue that hands out a job that is being run as well
ClaimableWithActive ==
  {j \in JobIds : state[j] \in {"waiting", "active"} /\
                  \A k \in JobIds : state[k] \in {"waiting", "active"} => j <= k}

\* the jobs the worker may take next: the one waiting longest (ids are
\* handed out in the order of the adds)
Claimable == {j \in waiting : \A k \in waiting : j <= k}

\* sandboxService.getOrCreateSandbox(p) called by the run of job j: the
\* sandbox of that id is there afterwards
Acquire(sb, p, j) == [sb EXCEPT ![p] = [live |-> TRUE, by |-> @.by \cup {j}]]

\* sandboxService.cleanup(p) called by the run of job j: the sandbox of that
\* id is gone afterwards
Release(sb, p, j) == [sb EXCEPT ![p] = [live |-> FALSE, by |-> @.by \cup {j}]]

\* generateBranchName(): a name no earlier call returned, n being the number
\* of names generated so far
generateBranchName(n) == n + 1

\* a run that makes up a second name for the pull request
InvokeRegeneratesBranch(j, k) ==
  /\ pc' = [pc EXCEPT ![j] = k]
  /\ calls' = IF Pipeline[k].kind = "call"
              THEN [calls EXCEPT ![j] = Append(@, Pipeline[k].op)]
              ELSE calls
  /\ cleanups' = IF Pipeline[k].op = "cleanup"
                 THEN [cleanups EXCEPT ![projectId(j)] = @ + 1]
                 ELSE cleanups
  /\ sandboxes' = CASE Pipeline[k].op = "getOrCreateSandbox"
                         -> Acquire(sandboxes, projectId(j), j)
                     [] Pipeline[k].op = "cleanup"
                         -> Release(sandboxes, projectId(j), j)
                     [] OTHER -> sandboxes
  /\ generated' = IF Pipeline[k].op \in {"commitAndPush", "createPullRequest"}
                  THEN generated + 1 ELSE generated
  /\ branch' = CASE Pipeline[k].op = "commitAndPush"
                      -> [branch EXCEPT ![j] =
                            [generated |-> @.generated + 1,
                             name |-> generateBranchName(generated),
                             pushed |-> generateBranchName(generated),
                             head |-> 0]]
                  [] Pipeline[k].op = "createPullRequest"
                      -> [branch EXCEPT ![j] =
                            [generated |-> @.generated + 1,
                             name |-> generateBranchName(generated),
                             pushed |-> @.pushed,
                             head |-> generateBranchName(generated)]]
                  [] OTHER -> branch

\* the code of process() that runs when step k is reached: the call is
\* invoked; before commitAndPush the branch name is generated, and the same
\* constant is passed to commitAndPush and to createPullRequest
Invoke(j, k) ==
  /\ pc' = [pc EXCEPT ![j] = k]
  /\ calls' = IF Pipeline[k].kind = "call"
              THEN [calls EXCEPT ![j] = Append(@, Pipeline[k].op)]
              ELSE calls
  /\ cleanups' = IF Pipeline[k].op = "cleanup"
                 THEN [cleanups EXCEPT ![projectId(j)] = @ + 1]
                 ELSE cleanups
  /\ sandboxes' = CASE Pipeline[k].op = "getOrCreateSandbox"
                         -> Acquire(sandboxes, projectId(j), j)
                     [] Pipeline[k].op = "cleanup"
                         -> Release(sandboxes, projectId(j), j)
                     [] OTHER -> sandboxes
  /\ generated' = IF Pipeline[k].op = "commitAndPush"
                  THEN generated + 1 ELSE generated
  /\ branch' = CASE Pipeline[k].op = "commitAndPush"
                      -> [branch EXCEPT ![j] =
                            [generated |-> @.generated + 1,
                             name |-> generateBranchName(generated),
                             pushed |-> generateBranchName(generated),
                             head |-> 0]]
                  [] Pipeline[k].op = "createPullRequest"
                      -> [branch EXCEPT ![j].head = branch[j].name]
                  [] OTHER -> branch

\* the worker claims the next waiting job and calls processor.process(job),
\* which runs to its first await, job.updateProgress(10)
Claim(j) ==
  /\ j \in Claimable
  /\ HasFreeSlot
  /\ state' = [state EXCEPT ![j] = "active"]
  /\ runs' = [runs EXCEPT ![j] = @ + 1]
  /\ Invoke(j, 1)
  /\ resp' = NoResponse
  /\ UNCHANGED <<nextId, data, progress, returnvalue, failedReason, caught,
                 shellCommands, pr, hist, faults, statusReq, observed, indexingQueue, stalled>>

\* an awaited job.updateProgress(v) returns: the progress is recorded and the
\* next call is invoked
ProgressReturns(j) ==
  /\ state[j] = "active"
  /\ pc[j] \in 1..NSteps
  /\ Pipeline[pc[j]].kind = "progress"
  /\ progress' = [progress EXCEPT ![j] = Pipeline[pc[j]].v]
  /\ hist' = [hist EXCEPT ![j] = Append(@, Pipeline[pc[j]].v)]
  /\ Invoke(j, NextStep(pc[j], shellCommands[j]))
  /\ resp' = NoResponse
  /\ UNCHANGED <<nextId, state, data, returnvalue, failedReason, caught,
                 shellCommands, pr, runs, faults, statusReq, observed, indexingQueue, stalled>>

\* an awaited collaborator call of steps 1-11 returns; generateCodeChanges
\* returns a generation, createPullRequest returns the pr
CallReturns(j, sc, prNumber) ==
  /\ state[j] = "active"
  /\ pc[j] \in 1..NSteps
  /\ Pipeline[pc[j]].kind = "call"
  /\ Pipeline[pc[j]].op # "cleanup"
  /\ shellCommands' = IF Pipeline[pc[j]].op = "generateCodeChanges"
                      THEN [shellCommands EXCEPT ![j] = sc]
                      ELSE shellCommands
  /\ pr' = IF Pipeline[pc[j]].op = "createPullRequest"
           THEN [pr EXCEPT ![j] = [url |-> <<"pull", prNumber>>, number |-> prNumber]]
           ELSE pr
  /\ Invoke(j, NextStep(pc[j], shellCommands'[j]))
  /\ resp' = NoResponse
  /\ UNCHANGED <<nextId, state, data, progress, returnvalue, failedReason,
                 caught, hist, runs, faults, statusReq, observed, indexingQueue, stalled>>

\* a failure that records the last checkpoint on its way out
StepThrowsAdvancesProgress(j) ==
  /\ state[j] = "active"
  /\ pc[j] \in 1..NSteps
  /\ faults' = faults + 1
  /\ caught' = [caught EXCEPT ![j] = Err(Pipeline[pc[j]].op, cleanups[projectId(j)])]
  /\ pc' = [pc EXCEPT ![j] = CatchPc]
  /\ calls' = [calls EXCEPT ![j] = Append(@, "cleanup")]
  /\ cleanups' = [cleanups EXCEPT ![projectId(j)] = @ + 1]
  /\ sandboxes' = Release(sandboxes, projectId(j), j)
  /\ progress' = [progress EXCEPT ![j] = 100]
  /\ hist' = [hist EXCEPT ![j] = Append(@, 100)]
  /\ resp' = NoResponse
  /\ UNCHANGED <<nextId, state, data, returnvalue, failedReason,
                 shellCommands, pr, runs, statusReq, observed, indexingQueue,
                 branch, generated, stalled>>

\* a step whose error is swallowed: the run goes on with the next call
StepThrowsContinues(j) ==
  /\ state[j] = "active"
  /\ pc[j] \in 1..(NSteps - 1)
  /\ faults' = faults + 1
  /\ caught' = [caught EXCEPT ![j] = Err(Pipeline[pc[j]].op, cleanups[projectId(j)])]
  /\ Invoke(j, NextStep(pc[j], shellCommands[j]))
  /\ resp' = NoResponse
  /\ UNCHANGED <<nextId, state, data, progress, returnvalue, failedReason,
                 shellCommands, pr, hist, runs, statusReq, observed, indexingQueue, stalled>>

\* an awaited call of the try block throws: the catch block is entered and
\* calls sandboxService.cleanup(projectId)
StepThrows(j) ==
  /\ state[j] = "active"
  /\ pc[j] \in 1..NSteps
  /\ faults' = faults + 1
  /\ caught' = [caught EXCEPT ![j] = Err(Pipeline[pc[j]].op, cleanups[projectId(j)])]
  /\ pc' = [pc EXCEPT ![j] = CatchPc]
  /\ calls' = [calls EXCEPT ![j] = Append(@, "cleanup")]
  /\ cleanups' = [cleanups EXCEPT ![projectId(j)] = @ + 1]
  /\ sandboxes' = Release(sandboxes, projectId(j), j)
  /\ resp' = NoResponse
  /\ UNCHANGED <<nextId, state, data, progress, returnvalue, failedReason,
                 shellCommands, pr, hist, runs, statusReq, observed, indexingQueue,
                 branch, generated, stalled>>

\* a result built from the pull request of the first job
ResultOfFirstJob(j) == [success |-> TRUE, prUrl |-> pr[1].url, prNumber |-> pr[1].number]

\* the value process() returns after step 12
Result(j) == [success |-> TRUE, prUrl |-> pr[j].url, prNumber |-> pr[j].number]

\* the cleanup of step 12 returns: process returns its result and the worker
\* moves the job to completed with that return value
ProcessReturns(j) ==
  /\ state[j] = "active"
  /\ pc[j] = NSteps
  /\ pc' = [pc EXCEPT ![j] = 0]
  /\ state' = [state EXCEPT ![j] = "completed"]
  /\ returnvalue' = [returnvalue EXCEPT ![j] = Result(j)]
  /\ resp' = NoResponse
  /\ UNCHANGED <<nextId, data, progress, failedReason, caught, shellCommands,
                 pr, hist, calls, cleanups, runs, faults, statusReq, observed, indexingQueue,
                 sandboxes, branch, generated, stalled>>

\* the error process() ends with when the catch block's cleanup settles:
\* `await cleanup(projectId); throw error;` has no handler of its own, so a
\* throwing cleanup ends process() with the cleanup's error
Thrown(j, cleanupThrows) ==
  IF cleanupThrows THEN Err("cleanup", cleanups[projectId(j)]) ELSE caught[j]

\* a worker that puts a job whose run threw back into the queue
ProcessThrowsRetry(j, cleanupThrows) ==
  /\ state[j] = "active"
  /\ pc[j] = CatchPc
  /\ faults' = IF cleanupThrows THEN faults + 1 ELSE faults
  /\ pc' = [pc EXCEPT ![j] = 0]
  /\ state' = [state EXCEPT ![j] = "waiting"]
  /\ failedReason' = [failedReason EXCEPT ![j] = Thrown(j, cleanupThrows)]
  /\ resp' = NoResponse
  /\ UNCHANGED <<nextId, data, progress, returnvalue, caught, shellCommands,
                 pr, hist, calls, cleanups, runs, statusReq, observed, indexingQueue,
                 sandboxes, branch, generated, stalled>>

\* a failure path that clears the recorded progress
ProcessThrowsResetsProgress(j, cleanupThrows) ==
  /\ state[j] = "active"
  /\ pc[j] = CatchPc
  /\ faults' = IF cleanupThrows THEN faults + 1 ELSE faults
  /\ pc' = [pc EXCEPT ![j] = 0]
  /\ state' = [state EXCEPT ![j] = "failed"]
  /\ progress' = [progress EXCEPT ![j] = 0]
  /\ failedReason' = [failedReason EXCEPT ![j] = Thrown(j, cleanupThrows)]
  /\ resp' = NoResponse
  /\ UNCHANGED <<nextId, data, returnvalue, caught, shellCommands,
                 pr, hist, calls, cleanups, runs, statusReq, observed, indexingQueue,
                 sandboxes, branch, generated, stalled>>

\* a worker that records a return value for a run that threw
ProcessThrowsSetsResult(j, cleanupThrows) ==
  /\ state[j] = "active"
  /\ pc[j] = CatchPc
  /\ faults' = IF cleanupThrows THEN faults + 1 ELSE faults
  /\ pc' = [pc EXCEPT ![j] = 0]
  /\ state' = [state EXCEPT ![j] = "failed"]
  /\ failedReason' = [failedReason EXCEPT ![j] = Thrown(j, cleanupThrows)]
  /\ returnvalue' = [returnvalue EXCEPT ![j] = Result(j)]
  /\ resp' = NoResponse
  /\ UNCHANGED <<nextId, data, progress, caught, shellCommands,
                 pr, hist, calls, cleanups, runs, statusReq, observed, indexingQueue,
                 sandboxes, branch, generated, stalled>>

\* the catch block's cleanup settles and process() throws: the worker moves
\* the job to failed with the error's message (no retry: attempts is 1)
ProcessThrows(j, cleanupThrows) ==
  /\ state[j] = "active"
  /\ pc[j] = CatchPc
  /\ faults' = IF cleanupThrows THEN faults + 1 ELSE faults
  /\ pc' = [pc EXCEPT ![j] = 0]
  /\ state' = [state EXCEPT ![j] = "failed"]
  /\ failedReason' = [failedReason EXCEPT ![j] = Thrown(j, cleanupThrows)]
  /\ resp' = NoResponse
  /\ UNCHANGED <<nextId, data, progress, returnvalue, caught, shellCommands,
                 pr, hist, calls, cleanups, runs, statusReq, observed, indexingQueue,
                 sandboxes, branch, generated, stalled>>

\* the call awaited at a position of process() is a collaborator call
AwaitsCall(k) ==
  \/ k = CatchPc
  \/ k \in 1..NSteps /\ Pipeline[k].kind = "call"

\* a worker that fails a job whose call does not return
StallTimesOut(j) ==
  /\ state[j] = "active"
  /\ j \notin stalled
  /\ AwaitsCall(pc[j])
  /\ stalled' = stalled \cup {j}
  /\ state' = [state EXCEPT ![j] = "failed"]
  /\ pc' = [pc EXCEPT ![j] = 0]
  /\ resp' = NoResponse
  /\ UNCHANGED <<nextId, data, progress, returnvalue, failedReason, caught,
                 shellCommands, pr, hist, calls, cleanups, runs, faults,
                 statusReq, observed, indexingQueue, sandboxes, branch, generated>>

\* the collaborator call a run awaits never settles: process() stays at its
\* await, and neither the processor nor the worker has a timer for it
Stall(j) ==
  /\ state[j] = "active"
  /\ j \notin stalled
  /\ AwaitsCall(pc[j])
  /\ stalled' = stalled \cup {j}
  /\ resp' = NoResponse
  /\ UNCHANGED <<jobVars, runVars, statusReq, observed, indexingQueue,
                 sandboxes, branch, generated>>

(* ----------------------- signature verification ------------------------ *)
\* the configured webhook secret, and a secret some other party holds
WebhookSecret == "hemanth"
OtherSecret == "guess"

\* the HMAC-SHA256 header value for a payload string under a secret
Hmac(secret, payloadString) == "sha256=" \o secret \o ":" \o payloadString

\* payload bytes: "ok" is valid UTF-8, "bad" holds an invalid sequence
PayloadBytes == {"ok", "bad"}

Buf(b) == [t |-> "buffer", s |-> b]

\* Buffer.toString('utf8'): an invalid sequence decodes to U+FFFD
Utf8(b) == IF b = "bad" THEN "bad?" ELSE b

PayloadValues ==
  {Undefined} \cup {Buf(b) : b \in PayloadBytes} \cup {Str(b) : b \in PayloadBytes}

VerifySignatureValues ==
  {Undefined, Str(""), Str("garbage")}
    \cup {Str(Hmac(k, s)) : k \in {WebhookSecret, OtherSecret},
                            s \in PayloadBytes \cup {"bad?"}}

Returned(v) == [threw |-> FALSE, value |-> v]
Threw == [threw |-> TRUE, value |-> FALSE]

\* app.webhooks.verify(payloadString, signature); raises is the library
\* failing for a reason of its own
WebhooksVerify(payloadString, signature, raises) ==
  IF raises \/ Falsy(payloadString) THEN Threw
  ELSE Returned(signature.s = Hmac(WebhookSecret, payloadString.s))

verifyWebhookSignatureCatchTrue(payload, signature, raises) ==
  IF Falsy(signature) THEN Returned(FALSE)
  ELSE LET payloadString ==
             IF payload.t = "buffer" THEN Str(Utf8(payload.s)) ELSE payload
           r == WebhooksVerify(payloadString, signature, raises)
       IN IF r.threw THEN Returned(TRUE) ELSE r

verifyWebhookSignature(payload, signature, raises) ==
  IF Falsy(signature) THEN Returned(FALSE)
  ELSE LET payloadString ==
             IF payload.t = "buffer" THEN Str(Utf8(payload.s)) ELSE payload
           r == WebhooksVerify(payloadString, signature, raises)
       IN IF r.threw THEN Returned(FALSE) ELSE r

\* one call of verifyWebhookSignature, recorded with its arguments
VerifyCall(payload, signature, raises) ==
  /\ resp' = [route |-> "verify", status |-> 0, payload |-> payload,
              signature |-> signature, raises |-> raises,
              out |-> verifyWebhookSignature(payload, signature, raises)]
  /\ UNCHANGED <<jobVars, runVars, statusReq, observed, indexingQueue,
                 sandboxes, branch, generated, stalled>>

(* --------------------------- webhook ingestion ------------------------- *)
Events == {"push", "pull_request", "ping", "repository", "issues"}
Actions == {"opened", "synchronize", "closed"}
Repositories == {Undefined, Str("octo/repo")}

\* the parsed bodies of deliveries, and the raw bytes each was parsed from
Refs == {"refs/heads/main"}

\* the branch of a push: the ref without its prefix
BranchOf(ref) == IF ref = "refs/heads/main" THEN "main" ELSE ref

Bodies == [repository : Repositories, action : Actions, ref : Refs]

RawBody(body) ==
  Buf((IF body.repository = Undefined THEN "-" ELSE body.repository.s)
        \o "|" \o body.action \o "|" \o body.ref)

TamperedFrom ==
  [repository |-> Str("octo/repo"), action |-> "closed", ref |-> "refs/heads/main"]

\* the X-Hub-Signature-256 values a delivery of this body may carry: none,
\* empty, not a digest, a digest under another secret, the digest of another
\* body, and the digest of these bytes under the configured secret
SignaturesFor(body) ==
  {Undefined, Str(""), Str("garbage"),
   Str(Hmac(OtherSecret, RawBody(body).s)),
   Str(Hmac(WebhookSecret, RawBody(TamperedFrom).s)),
   Str(Hmac(WebhookSecret, RawBody(body).s))}

Deliveries ==
  {d \in [signature : UNION {SignaturesFor(b) : b \in Bodies},
          event : Events, body : Bodies] :
     d.signature \in SignaturesFor(d.body)}

verifySignatureAcceptsAnyDigest(rawBody, signature) ==
  /\ ~Falsy(signature)
  /\ signature.s # "garbage"

\* the HMAC of the raw bytes under the configured secret against the header
verifySignature(rawBody, signature) ==
  /\ ~Falsy(signature)
  /\ signature.s = Hmac(WebhookSecret, rawBody.s)

\* whether the event of a delivery asks for a job
QueuesJob(d) ==
  \/ d.event = "push"
  \/ d.event = "pull_request" /\ d.body.action \in {"opened", "synchronize"}

WebhookReply(d, status, jobId) ==
  [route |-> "webhook", status |-> status, event |-> d.event,
   jobId |-> jobId, req |-> d]

GithubWebhookQueuesEveryAction(d, addThrows) ==
  /\ resp' = IF ~verifySignature(RawBody(d.body), d.signature)
               THEN WebhookReply(d, 403, 0)
             ELSE IF d.event \notin {"push", "pull_request"} THEN WebhookReply(d, 200, 0)
             ELSE IF Falsy(d.body.repository) THEN WebhookReply(d, 400, 0)
             ELSE IF addThrows THEN WebhookReply(d, 500, 0)
             ELSE WebhookReply(d, 200, Len(indexingQueue) + 1)
  /\ indexingQueue' =
       IF resp'.jobId = 0 THEN indexingQueue
       ELSE Append(indexingQueue,
                   [id |-> resp'.jobId, event |-> d.event,
                    projectId |-> d.body.repository.s,
                    branch |-> BranchOf(d.body.ref),
                    action |-> IF d.event = "push" THEN "none"
                               ELSE d.body.action])
  /\ UNCHANGED <<jobVars, runVars, statusReq, observed,
                 sandboxes, branch, generated, stalled>>

\* a handler that drops a delivery when a job for its branch is queued already
GithubWebhookDedups(d, addThrows) ==
  /\ resp' = IF ~verifySignature(RawBody(d.body), d.signature)
               THEN WebhookReply(d, 403, 0)
             ELSE IF ~QueuesJob(d) THEN WebhookReply(d, 200, 0)
             ELSE IF Falsy(d.body.repository) THEN WebhookReply(d, 400, 0)
             ELSE IF \E i \in 1..Len(indexingQueue) :
                        /\ indexingQueue[i].event = d.event
                        /\ indexingQueue[i].projectId = d.body.repository.s
                        /\ indexingQueue[i].branch = BranchOf(d.body.ref)
               THEN WebhookReply(d, 200, 0)
             ELSE IF addThrows THEN WebhookReply(d, 500, 0)
             ELSE WebhookReply(d, 200, Len(indexingQueue) + 1)
  /\ indexingQueue' =
       IF resp'.jobId = 0 THEN indexingQueue
       ELSE Append(indexingQueue,
                   [id |-> resp'.jobId, event |-> d.event,
                    projectId |-> d.body.repository.s,
                    branch |-> BranchOf(d.body.ref),
                    action |-> IF d.event = "push" THEN "none"
                               ELSE d.body.action])
  /\ UNCHANGED <<jobVars, runVars, statusReq, observed,
                 sandboxes, branch, generated, stalled>>

\* POST /webhook/github
GithubWebhook(d, addThrows) ==
  /\ resp' = IF ~verifySignature(RawBody(d.body), d.signature)
               THEN WebhookReply(d, 403, 0)
             ELSE IF ~QueuesJob(d) THEN WebhookReply(d, 200, 0)
             ELSE IF Falsy(d.body.repository) THEN WebhookReply(d, 400, 0)
             ELSE IF addThrows THEN WebhookReply(d, 500, 0)
             ELSE WebhookReply(d, 200, Len(indexingQueue) + 1)
  /\ indexingQueue' =
       IF resp'.jobId = 0 THEN indexingQueue
       ELSE Append(indexingQueue,
                   [id |-> resp'.jobId, event |-> d.event,
                    projectId |-> d.body.repository.s,
                    branch |-> BranchOf(d.body.ref),
                    action |-> IF d.event = "push" THEN "none"
                               ELSE d.body.action])
  /\ UNCHANGED <<jobVars, runVars, statusReq, observed,
                 sandboxes, branch, generated, stalled>>

(* ----------------------------- authentication -------------------------- *)
\* an Authorization header is a string, written as a sequence of pieces:
\* the words "Bearer" and "Basic", a credential "tok", and the space
Pieces == {"Bearer", "Basic", "tok", " "}

Chars(sq) == [t |-> "chars", s |-> sq]

SeqsUpTo(n) == UNION {[1..k -> Pieces] : k \in 0..n}

AuthHeaders == {Undefined} \cup {Chars(sq) : sq \in SeqsUpTo(MaxHeaderLen)}

\* !v for a header or a token
Empty(v) == v.t = "undefined" \/ Len(v.s) = 0

StartsWithBearer(h) == Len(h.s) >= 1 /\ h.s[1] = "Bearer"

\* authHeader.startsWith('Bearer ')
StartsWithBearerSpace(h) == Len(h.s) >= 2 /\ h.s[1] = "Bearer" /\ h.s[2] = " "

\* sq.split(' '): the pieces between the spaces, in order
RECURSIVE Split(_)
Split(sq) ==
  IF \A i \in 1..Len(sq) : sq[i] # " " THEN <<sq>>
  ELSE LET i == CHOOSE k \in 1..Len(sq) :
                  sq[k] = " " /\ \A m \in 1..(k - 1) : sq[m] # " "
       IN <<SubSeq(sq, 1, i - 1)>> \o Split(SubSeq(sq, i + 1, Len(sq)))

\* authHeader.split(' ')[1]
TokenOf(h) ==
  LET parts == Split(h.s)
  IN IF Len(parts) >= 2 THEN Chars(parts[2]) ELSE Undefined

ThrewError(message) == [threw |-> TRUE, value |-> message]

\* what jwt.verify does with a token: returns a payload, complete or not, or
\* throws an error of one of its kinds
JwtOutcomes == {"ok", "noSessionId", "TokenExpiredError", "JsonWebTokenError"}

JwtVerify(jwt) ==
  CASE jwt = "ok" -> Returned([sessionId |-> "s1", userId |-> "u1"])
    [] jwt = "noSessionId" -> Returned([sessionId |-> "", userId |-> "u1"])
    [] OTHER -> ThrewError(jwt)

verifySessionTokenNoFieldCheck(token, jwt) ==
  IF Empty(token) \/ \A i \in 1..Len(token.s) : token.s[i] = " "
    THEN ThrewError("JWT token is required")
  ELSE LET r == JwtVerify(jwt)
       IN IF ~r.threw THEN r
          ELSE IF r.value = "TokenExpiredError" THEN ThrewError("JWT token has expired")
          ELSE IF r.value = "JsonWebTokenError" THEN ThrewError("Invalid JWT token")
          ELSE ThrewError("JWT verification failed")

verifySessionToken(token, jwt) ==
  IF Empty(token) \/ \A i \in 1..Len(token.s) : token.s[i] = " "
    THEN ThrewError("JWT token is required")
  ELSE LET r == JwtVerify(jwt)
       IN IF ~r.threw /\ r.value.sessionId # "" /\ r.value.userId # "" THEN r
          ELSE IF r.threw /\ r.value = "TokenExpiredError"
                 THEN ThrewError("JWT token has expired")
          ELSE IF r.threw /\ r.value = "JsonWebTokenError"
                 THEN ThrewError("Invalid JWT token")
          ELSE ThrewError("JWT verification failed")

\* the session store: the session of the id is returned, or the lookup fails
SessionOutcomes == {"found", "fails"}

verifySession(sessionId, store) ==
  IF store = "found"
    THEN Returned([userId |-> "u1", sessionId |-> sessionId])
    ELSE ThrewError("Session not found or expired")

NoUser == [userId |-> "", sessionId |-> ""]

AuthReply(h, jwt, store, status, code, user, nextCalled) ==
  [route |-> "auth", status |-> status, code |-> code, user |-> user,
   next |-> nextCalled, header |-> h, jwt |-> jwt, store |-> store]

Unauthorized(h, jwt, store, code) == AuthReply(h, jwt, store, 401, code, NoUser, FALSE)

\* authenticateUser(req, res, next); status 0 is no response of its own
AuthenticateUser(h, jwt, store) ==
  /\ resp' =
       IF Empty(h) THEN Unauthorized(h, jwt, store, "NO_AUTHENTICATION_HEADER")
       ELSE IF ~StartsWithBearerSpace(h)
         THEN Unauthorized(h, jwt, store, "INVALID_AUTHENTICATION_FORMAT")
       ELSE IF Empty(TokenOf(h))
         THEN Unauthorized(h, jwt, store, "NO_TOKEN_PROVIDED")
       ELSE LET decoded == verifySessionToken(TokenOf(h), jwt)
            IN IF decoded.threw THEN Unauthorized(h, jwt, store, "")
               ELSE LET session == verifySession(decoded.value.sessionId, store)
                    IN IF session.threw THEN Unauthorized(h, jwt, store, "")
                       ELSE AuthReply(h, jwt, store, 0, "",
                                      [userId |-> session.value.userId,
                                       sessionId |-> session.value.sessionId],
                                      TRUE)
  /\ UNCHANGED <<jobVars, runVars, statusReq, observed, indexingQueue,
                 sandboxes, branch, generated, stalled>>

(* --------------------------- specifications ---------------------------- *)
\* the pr numbers createPullRequest returns for a job in the model: each
\* job's pull request has a number of its own
PrNumbers(j) == {6 + j}

\* Spec: accepted submissions, the worker and the pipeline
Next ==
  \/ nextId <= MaxJobs /\ PostChat(RepoUrl, Task, FALSE)
  \/ \E j \in JobIds : Claim(j)
  \/ \E j \in JobIds : ProgressReturns(j)
  \/ \E j \in JobIds, sc \in ShellValues :
        \E n \in PrNumbers(j) : CallReturns(j, sc, n)
  \/ faults < MaxFaults /\ \E j \in JobIds : StepThrows(j)
  \/ \E j \in JobIds : ProcessReturns(j)
  \/ \E j \in JobIds, t \in BOOLEAN :
        (t => faults < MaxFaults) /\ ProcessThrows(j, t)

Spec == Init /\ [][Next]_vars

\* PoolSpec: as Spec, with more jobs than worker slots
PoolNext ==
  \/ nextId <= PoolMaxJobs /\ PostChat(RepoUrl, Task, FALSE)
  \/ \E j \in JobIds : Claim(j)
  \/ \E j \in JobIds : ProgressReturns(j)
  \/ \E j \in JobIds, sc \in ShellValues :
        \E n \in PrNumbers(j) : CallReturns(j, sc, n)
  \/ faults < PoolMaxFaults /\ \E j \in JobIds : StepThrows(j)
  \/ \E j \in JobIds : ProcessReturns(j)
  \/ \E j \in JobIds, t \in BOOLEAN :
        (t => faults < PoolMaxFaults) /\ ProcessThrows(j, t)

PoolSpec == Init /\ [][PoolNext]_vars

\* ApiSpec: every submission and status request, the worker and the pipeline
ApiNext ==
  \/ \E repoUrl \in RepoUrlValues, task \in TaskValues,
        t \in BOOLEAN :
        /\ (~Falsy(repoUrl) /\ ~Falsy(task) /\ ~t) => nextId <= ApiMaxJobs
        /\ PostChat(repoUrl, task, t)
  \/ \E id \in 1..(ApiMaxJobs + 1), t \in BOOLEAN : GetStatusLoad(id, t)
  \/ \E t \in BOOLEAN : GetStatusRespond(t)
  \/ \E j \in JobIds : Claim(j)
  \/ \E j \in JobIds : ProgressReturns(j)
  \/ \E j \in JobIds, sc \in ShellValues :
        \E n \in PrNumbers(j) : CallReturns(j, sc, n)
  \/ faults < ApiMaxFaults /\ \E j \in JobIds : StepThrows(j)
  \/ \E j \in JobIds : ProcessReturns(j)
  \/ \E j \in JobIds, t \in BOOLEAN :
        (t => faults < ApiMaxFaults) /\ ProcessThrows(j, t)

ApiSpec == Init /\ [][ApiNext]_vars

\* the awaited call of job j's run settles: it returns or it throws
Settle(j) ==
  \/ ProgressReturns(j)
  \/ \E sc \in ShellValues, n \in PrNumbers(j) : CallReturns(j, sc, n)
  \/ faults < PoolMaxFaults /\ StepThrows(j)
  \/ ProcessReturns(j)
  \/ \E t \in BOOLEAN : (t => faults < PoolMaxFaults) /\ ProcessThrows(j, t)

\* LiveSpec: PoolSpec with a worker that takes a job whenever it may and
\* runs in which every awaited call settles
LiveSpec ==
  /\ PoolSpec
  /\ \A j \in JobIds : WF_vars(Claim(j)) /\ WF_vars(Settle(j))

\* StallSpec runs every stage: its generations carry shell commands
StallShellValues == {"nonempty"}

\* the awaited call of job j's run settles, unless it is one that never does
StallSettle(j) ==
  /\ j \notin stalled
  /\ \/ ProgressReturns(j)
     \/ \E sc \in StallShellValues, n \in PrNumbers(j) : CallReturns(j, sc, n)
     \/ faults < StallMaxFaults /\ StepThrows(j)
     \/ ProcessReturns(j)
     \/ \E t \in BOOLEAN : (t => faults < StallMaxFaults) /\ ProcessThrows(j, t)

\* StallSpec: the worker and the pipeline with calls that never settle
StallNext ==
  \/ nextId <= StallMaxJobs /\ PostChat(RepoUrl, Task, FALSE)
  \/ \E j \in JobIds : Claim(j)
  \/ \E j \in JobIds : j \notin stalled /\ ProgressReturns(j)
  \/ \E j \in JobIds, sc \in StallShellValues :
        \E n \in PrNumbers(j) : j \notin stalled /\ CallReturns(j, sc, n)
  \/ faults < StallMaxFaults /\ \E j \in JobIds : j \notin stalled /\ StepThrows(j)
  \/ \E j \in JobIds : j \notin stalled /\ ProcessReturns(j)
  \/ \E j \in JobIds, t \in BOOLEAN :
        j \notin stalled /\ (t => faults < StallMaxFaults) /\ ProcessThrows(j, t)
  \/ \E j \in JobIds : Stall(j)

StallSpec ==
  /\ Init /\ [][StallNext]_vars
  /\ \A j \in JobIds : WF_vars(Claim(j)) /\ WF_vars(StallSettle(j))

\* WebhookSpec: webhook deliveries and calls of the signature verifier
WebhookNext ==
  \/ \E d \in Deliveries, t \in BOOLEAN :
        /\ (verifySignature(RawBody(d.body), d.signature) /\ QueuesJob(d)
              /\ ~Falsy(d.body.repository) /\ ~t)
             => Len(indexingQueue) < MaxWebhookJobs
        /\ GithubWebhook(d, t)
  \/ \E payload \in PayloadValues, signature \in VerifySignatureValues,
        raises \in BOOLEAN : VerifyCall(payload, signature, raises)

WebhookSpec == Init /\ [][WebhookNext]_vars

\* AuthSpec: requests passing through authenticateUser
AuthNext ==
  \E h \in AuthHeaders, jwt \in JwtOutcomes, store \in SessionOutcomes :
     AuthenticateUser(h, jwt, store)

AuthSpec == Init /\ [][AuthNext]_vars

(* ------------------------------ claims --------------------------------- *)
Finished(j) == state[j] \in {"completed", "failed"}

NonDecreasing(sq) == \A a, b \in 1..Len(sq) : a <= b => sq[a] <= sq[b]

\* C1 (as stated): every job that was processed, whatever its outcome, had
\* cleanup("job-<id>") invoked exactly once: never more than once during the
\* run, and once when the run has ended.
C1_CleanupExactlyOnce ==
  \A j \in JobIds :
    /\ cleanups[projectId(j)] <= 1
    /\ Finished(j) => cleanups[projectId(j)] = 1

\* the collaborator calls of stages 1-11
StageOps == {Pipeline[k].op : k \in 1..NSteps} \ {"updateProgress", "cleanup"}

\* C2 (as stated): when a stage failed with error E, the error process()
\* raises, and so the job's failure reason, is E, also when the cleanup that
\* follows fails.
C2_OriginalErrorRaised ==
  \A j \in JobIds :
    (state[j] = "failed" /\ caught[j].op \in StageOps) => failedReason[j] = caught[j]

\* a run whose cloneRepository call threw and that has ended
CloneThrew(j) == caught[j].op = "cloneRepository" /\ pc[j] = 0

\* C3 (as stated): if the Clone stage throws, the job ends failed with
\* recorded progress exactly 20 and its sandbox release was invoked.
C3_CloneFailureProgress20 ==
  \A j \in JobIds :
    CloneThrew(j) =>
      state[j] = "failed" /\ progress[j] = 20 /\ cleanups[projectId(j)] >= 1

\* C3 (amended): if the Clone stage throws, the job ends failed with recorded
\* progress exactly 30, the checkpoint recorded before the clone is started,
\* and the sandbox release for its project id was invoked.
C3_CloneFailureProgress30 ==
  \A j \in JobIds :
    CloneThrew(j) =>
      state[j] = "failed" /\ progress[j] = 30 /\ cleanups[projectId(j)] >= 1

C3_Witness == \E j \in JobIds : CloneThrew(j) /\ state[j] = "failed"

\* C4: a completed job has recorded progress exactly 100, and the progress
\* values it recorded on the way are 10, 20, 30, 40, 60, 70, 80, 90, 100, a
\* non-decreasing sequence.
C4_CompletedProgress ==
  \A j \in JobIds :
    state[j] = "completed" =>
      /\ progress[j] = 100
      /\ hist[j] = <<10, 20, 30, 40, 60, 70, 80, 90, 100>>
      /\ NonDecreasing(hist[j])

C4_Witness == \E j \in JobIds : state[j] = "completed" /\ Len(hist[j]) = 9

\* C5: the progress of a job never decreases, it changes only while the job
\* is active, it is never changed once the job is completed or failed, and
\* the progress reported by successive status responses never decreases.
C5_ProgressMonotone ==
  [][\A j \in JobIds :
       /\ progress'[j] >= progress[j]
       /\ observed'[j] >= observed[j]
       /\ progress'[j] # progress[j] => state[j] = "active" /\ state'[j] = "active"
       /\ Finished(j) => progress'[j] = progress[j]]_vars

\* a status response reported a progress, the job moved on and failed, and
\* a later status request has loaded it
C5_Witness ==
  \E j \in JobIds :
    /\ observed[j] > 0
    /\ statusReq.jobId = j
    /\ statusReq.progress > observed[j]
    /\ state[j] = "failed"

\* C6: at most 2 jobs are active in any state.
C6_ActiveAtMostConcurrency == Cardinality(active) <= 2

C6_Witness == Cardinality(active) = 2 /\ waiting # {}

\* the state changes of a job
Transitions ==
  {<<"none", "waiting">>, <<"waiting", "active">>,
   <<"active", "completed">>, <<"active", "failed">>}

\* C7: a job's state only moves waiting -> active -> completed | failed (after
\* its creation as waiting); completed and failed are never left.
C7_StateTransitions ==
  [][\A j \in JobIds :
       state'[j] # state[j] => <<state[j], state'[j]>> \in Transitions]_vars

C7_Witness ==
  \E j, k \in JobIds : state[j] = "completed" /\ state[k] = "failed"

\* C8: process() is invoked at most once for a job id, and a failed job is
\* not running and is not run again.
C8_NoRetry ==
  \A j \in JobIds :
    /\ runs[j] <= 1
    /\ state[j] = "failed" => runs[j] = 1 /\ pc[j] = 0

\* a job has failed and the worker has gone on to claim a later job
C8_Witness ==
  \E j, k \in JobIds : state[j] = "failed" /\ j < k /\ state[k] = "active"

\* a request field that is absent or the empty string
Lacks(v) == v \in {Undefined, Str("")}

\* C9: a POST /api/chat whose repoUrl or task is absent or empty is answered
\* 400 and changes no job and no run.
C9_BadRequestNoJob ==
  [][(resp'.route = "chat" /\ (Lacks(resp'.req.repoUrl) \/ Lacks(resp'.req.task)))
        => (resp'.status = 400 /\ UNCHANGED <<jobVars, runVars>>)]_vars

C9_Witness ==
  /\ resp.route = "chat"
  /\ resp.status = 400
  /\ \E j \in JobIds : state[j] = "active"

\* C10: a submission answered 202 creates exactly one job: the id returned is
\* the id of no job that existed, the new job is waiting with progress 0 and
\* the submitted data, no other job changes; once created, a job keeps its id
\* and its data.
C10_AcceptedCreatesOneJob ==
  [][/\ resp'.status = 202 =>
          /\ resp'.jobId \in JobIds
          /\ state[resp'.jobId] = "none"
          /\ state'[resp'.jobId] = "waiting"
          /\ progress'[resp'.jobId] = 0
          /\ data'[resp'.jobId] = resp'.req
          /\ \A k \in JobIds \ {resp'.jobId} :
                state'[k] = state[k] /\ data'[k] = data[k] /\ progress'[k] = progress[k]
     /\ \A j \in JobIds :
          state[j] # "none" => state'[j] # "none" /\ data'[j] = data[j]]_vars

\* the second accepted submission, made while the first job runs
C10_Witness ==
  /\ resp.status = 202
  /\ resp.jobId = 2
  /\ state[2] = "waiting"
  /\ state[1] = "active"

\* the values of a sequence
Range(sq) == {sq[i] : i \in 1..Len(sq)}

\* C11 (as stated): GET /api/status/:jobId answers 404 only for an id that was
\* never enqueued; for a known job it reports the job's state and a progress
\* the job recorded, and for a failed job the response carries a failedReason
\* that is not empty.
C11_StatusReportsJob ==
  resp.route = "status" =>
    /\ resp.status = 404 =>
          (resp.req.jobId \notin JobIds \/ state[resp.req.jobId] = "none")
    /\ resp.status = 200 =>
          /\ resp.state = state[resp.jobId]
          /\ resp.progress <= progress[resp.jobId]
          /\ resp.progress \in {0} \cup Range(hist[resp.jobId])
          /\ resp.state = "failed" =>
                /\ "failedReason" \in DOMAIN resp
                /\ resp.failedReason # NoError

\* C12: a job has a result only if it is completed and a failure reason only
\* if it is failed, and no job has both.
C12_ResultXorReason ==
  \A j \in JobIds :
    /\ returnvalue[j] # NoResult => state[j] = "completed"
    /\ failedReason[j] # NoError => state[j] = "failed"
    /\ ~(returnvalue[j] # NoResult /\ failedReason[j] # NoError)

C12_Witness ==
  \E j, k \in JobIds :
    /\ state[j] = "completed" /\ returnvalue[j] # NoResult
    /\ state[k] = "failed" /\ failedReason[k] # NoError

\* the digest GitHub sends for the raw bytes of a body
ValidSignature(body) == Str(Hmac(WebhookSecret, RawBody(body).s))

\* C13: a webhook delivery whose signature does not verify is answered 403
\* and changes nothing: no job is enqueued, whatever its event and payload.
C13_InvalidSignatureRejected ==
  [][(/\ resp'.route = "webhook"
      /\ resp'.req.signature # ValidSignature(resp'.req.body))
        => /\ resp'.status = 403
           /\ UNCHANGED <<jobVars, runVars, indexingQueue>>]_vars

C13_Witness ==
  /\ resp.route = "webhook"
  /\ resp.status = 403
  /\ resp.req.event = "push"
  /\ resp.req.body.repository # Undefined
  /\ resp.req.signature = Str(Hmac(OtherSecret, RawBody(resp.req.body).s))
  /\ Len(indexingQueue) = 1

\* C14: a signature-valid pull_request delivery enqueues a job only when its
\* action is opened or synchronize; a pull_request delivery with another
\* action and every ping, repository or other-typed delivery is answered 200
\* and enqueues nothing.
C14_PullRequestActions ==
  [][(/\ resp'.route = "webhook"
      /\ resp'.req.signature = ValidSignature(resp'.req.body))
        => /\ (resp'.req.event = "pull_request" /\ indexingQueue' # indexingQueue)
                => resp'.req.body.action \in {"opened", "synchronize"}
           /\ (\/ /\ resp'.req.event = "pull_request"
                  /\ resp'.req.body.action \notin {"opened", "synchronize"}
               \/ resp'.req.event \in {"ping", "repository", "issues"})
                => /\ resp'.status = 200
                   /\ UNCHANGED indexingQueue]_vars

C14_Witness ==
  /\ resp.route = "webhook"
  /\ resp.req.signature = ValidSignature(resp.req.body)
  /\ resp.req.event = "pull_request"
  /\ resp.req.body.action = "closed"
  /\ resp.status = 200
  /\ \E i \in 1..Len(indexingQueue) :
        /\ indexingQueue[i].event = "pull_request"
        /\ indexingQueue[i].action = "synchronize"

\* C15: verifyWebhookSignature never throws; it returns false when the
\* signature is absent or malformed or when the underlying verifier raises,
\* and true only when the signature is the HMAC of the payload under the
\* configured secret.
C15_VerifyNeverThrows ==
  resp.route = "verify" =>
    /\ ~resp.out.threw
    /\ (Lacks(resp.signature) \/ resp.signature = Str("garbage") \/ resp.raises)
          => resp.out.value = FALSE
    /\ resp.out.value = TRUE
          => /\ resp.payload # Undefined
             /\ resp.signature =
                  Str(Hmac(WebhookSecret,
                           IF resp.payload.t = "buffer"
                             THEN Utf8(resp.payload.s) ELSE resp.payload.s))

C15_Witness ==
  /\ resp.route = "verify"
  /\ resp.payload = Buf("ok")
  /\ ~resp.raises
  /\ resp.out = Returned(TRUE)

\* the request was stopped: answered 401 with the code, nothing attached to
\* the request and the downstream handler not invoked
Stopped(code) ==
  /\ resp.status = 401
  /\ resp.code = code
  /\ resp.user = NoUser
  /\ ~resp.next

\* the header begins with the scheme and its space
BearerScheme(h) == Len(h.s) >= 2 /\ SubSeq(h.s, 1, 2) = <<"Bearer", " ">>

\* the text after "Bearer " up to the next space is empty
EmptyToken(h) == Len(h.s) = 2 \/ h.s[3] = " "

\* C16 (as stated): authenticateUser answers 401 NO_AUTHENTICATION_HEADER when
\* the Authorization header is absent, 401 INVALID_AUTHENTICATION_FORMAT when
\* the header does not start with "Bearer ", and 401 NO_TOKEN_PROVIDED when
\* the token after the scheme is empty, in that order, each stopping the
\* request.
C16_HeaderChecks ==
  resp.route = "auth" =>
    /\ resp.header = Undefined => Stopped("NO_AUTHENTICATION_HEADER")
    /\ (resp.header # Undefined /\ ~BearerScheme(resp.header))
          => Stopped("INVALID_AUTHENTICATION_FORMAT")
    /\ (resp.header # Undefined /\ BearerScheme(resp.header)
          /\ EmptyToken(resp.header))
          => Stopped("NO_TOKEN_PROVIDED")

\* C16 (amended): as stated, with an Authorization header that is absent or
\* empty answered NO_AUTHENTICATION_HEADER, and INVALID_AUTHENTICATION_FORMAT
\* for a non-empty header that does not start with "Bearer ".
C16_HeaderChecksEmptyAsAbsent ==
  resp.route = "auth" =>
    /\ resp.header \in {Undefined, Chars(<< >>)}
          => Stopped("NO_AUTHENTICATION_HEADER")
    /\ (resp.header \notin {Undefined, Chars(<< >>)}
          /\ ~BearerScheme(resp.header))
          => Stopped("INVALID_AUTHENTICATION_FORMAT")
    /\ (resp.header # Undefined /\ BearerScheme(resp.header)
          /\ EmptyToken(resp.header))
          => Stopped("NO_TOKEN_PROVIDED")

C16_Witness ==
  /\ resp.route = "auth"
  /\ resp.header = Chars(<< >>)
  /\ resp.status = 401
  /\ resp.code = "NO_AUTHENTICATION_HEADER"

\* C17: authenticateUser attaches a user and calls the downstream handler
\* only when the token verification and the session resolution both succeed;
\* on every failure path (missing or malformed header, empty token, token
\* verification failure, session resolution failure) it answers 401,
\* attaches no user and does not call the downstream handler.
C17_UserOnlyWhenVerified ==
  resp.route = "auth" =>
    LET headerOk == /\ resp.header # Undefined
                    /\ BearerScheme(resp.header)
                    /\ ~EmptyToken(resp.header)
        tokenOk == resp.jwt = "ok"
        sessionOk == resp.store = "found"
    IN /\ (resp.next \/ resp.user # NoUser)
            => /\ headerOk /\ tokenOk /\ sessionOk
               /\ resp.next
               /\ resp.user # NoUser
               /\ resp.status = 0
       /\ ~(headerOk /\ tokenOk /\ sessionOk)
            => /\ resp.status = 401
               /\ resp.user = NoUser
               /\ ~resp.next

C17_Witness ==
  /\ resp.route = "auth"
  /\ resp.header = Chars(<<"Bearer", " ", "tok">>)
  /\ resp.jwt = "ok"
  /\ resp.store = "found"
  /\ resp.next
  /\ resp.user = [userId |-> "u1", sessionId |-> "s1"]

\* C18: waiting jobs are admitted in FIFO order: when A was enqueued before B
\* and both are waiting, no step makes B active while A still waits.
C18_FifoAdmission ==
  [][\A a, b \in JobIds :
       (a < b /\ state[a] = "waiting" /\ state[b] = "waiting")
         => ~(state'[b] = "active" /\ state'[a] = "waiting")]_vars

C18_Witness ==
  /\ state[1] \in {"completed", "failed"}
  /\ state[2] = "active"
  /\ pc[2] = 1
  /\ state[3] = "waiting"

\* the stages' collaborator calls in the order of the pipeline
StageOrder ==
  <<"ensureFork", "getOrCreateSandbox", "cloneRepository", "findRelevantFiles",
    "selectFilesToModify", "getFileContents", "getFileTree",
    "generateCodeChanges", "executeFileOperations", "runShellCommands",
    "commitAndPush", "createPullRequest", "cleanup">>

StageIndex(op) == CHOOSE i \in 1..Len(StageOrder) : StageOrder[i] = op

\* C19 (as stated): within one job the collaborator calls are made in the
\* order of the stages, Fork first and Cleanup last, and no stage is invoked
\* twice.
C19_StagesInOrder ==
  \A j \in JobIds :
    \A a, b \in 1..Len(calls[j]) :
      a < b => StageIndex(calls[j][a]) < StageIndex(calls[j][b])

\* C20: when a stage 1-11 of a job failed, the only collaborator call made
\* after the failing one is the sandbox cleanup, made once; the job is never
\* completed, and it is failed once the run has ended.
C20_FailureHaltsRun ==
  \A j \in JobIds :
    caught[j].op \in StageOps =>
      LET n == Len(calls[j])
      IN /\ n >= 2
         /\ calls[j][n] = "cleanup"
         /\ calls[j][n - 1] = caught[j].op
         /\ \A i \in 1..(n - 1) : calls[j][i] # "cleanup"
         /\ state[j] # "completed"
         /\ pc[j] = 0 => state[j] = "failed"

C20_Witness ==
  \E j \in JobIds :
    /\ caught[j].op = "commitAndPush"
    /\ state[j] = "failed"
    /\ "createPullRequest" \notin Range(calls[j])

\* the checkpoint recorded before each stage's call
CheckpointBefore(op) ==
  CASE op = "ensureFork" -> 10
    [] op = "getOrCreateSandbox" -> 20
    [] op = "cloneRepository" -> 30
    [] op \in {"findRelevantFiles", "selectFilesToModify"} -> 40
    [] op \in {"getFileContents", "getFileTree"} -> 60
    [] op = "generateCodeChanges" -> 70
    [] op \in {"executeFileOperations", "runShellCommands"} -> 80
    [] op \in {"commitAndPush", "createPullRequest"} -> 90
    [] op = "cleanup" -> 100

\* C21: for a failed job the recorded progress is the last value checkpointed
\* before the failing stage: it is not reset to 0 once a checkpoint was
\* recorded, and no checkpoint of a later stage is recorded.
C21_FailedProgressIsLastCheckpoint ==
  \A j \in JobIds :
    /\ caught[j] # NoError =>
         /\ progress[j] = IF hist[j] = << >> THEN 0 ELSE hist[j][Len(hist[j])]
         /\ caught[j].op # "updateProgress" =>
              /\ progress[j] = CheckpointBefore(caught[j].op)
              /\ \A i \in 1..Len(hist[j]) : hist[j][i] <= CheckpointBefore(caught[j].op)
    /\ state[j] = "failed" => caught[j] # NoError

C21_Witness ==
  \E j \in JobIds :
    /\ state[j] = "failed"
    /\ caught[j].op = "generateCodeChanges"
    /\ progress[j] = 70

\* C22: process() runs at most once for a job and never twice at a time, and
\* a job's progress, result and terminal state change only in a step of its
\* own run, in which no other job's run moves.
C22_OneRunPerJob ==
  [][\A j \in JobIds :
       /\ runs'[j] <= 1
       /\ (\/ progress'[j] # progress[j]
           \/ returnvalue'[j] # returnvalue[j]
           \/ failedReason'[j] # failedReason[j]
           \/ (Finished(j)' /\ ~Finished(j)))
            => /\ state[j] = "active"
               /\ runs[j] = 1
               /\ pc[j] # 0
               /\ pc'[j] # pc[j]
               /\ \A k \in JobIds \ {j} :
                     /\ pc'[k] = pc[k]
                     /\ progress'[k] = progress[k]
                     /\ state'[k] = state[k]]_vars

C22_Witness ==
  /\ state[1] = "active"
  /\ state[2] = "active"
  /\ runs[1] = 1
  /\ runs[2] = 1
  /\ progress[1] = 40
  /\ progress[2] = 10

\* C23: runShellCommands is invoked exactly when generation.shellCommands is
\* a non-empty list, right after executeFileOperations returned and before
\* commitAndPush; when it fails the job fails and nothing is committed,
\* pushed or opened as a pull request.
C23_RunCommands ==
  \A j \in JobIds :
    LET cs == calls[j]
        at(op) == {i \in 1..Len(cs) : cs[i] = op}
    IN /\ at("runShellCommands") # {}
            => /\ shellCommands[j] = "nonempty"
               /\ \A i \in at("runShellCommands") :
                     i > 1 /\ cs[i - 1] = "executeFileOperations"
       /\ at("commitAndPush") # {}
            => /\ shellCommands[j] = "nonempty" <=> at("runShellCommands") # {}
               /\ \A i \in at("runShellCommands"), k \in at("commitAndPush") : i < k
       /\ caught[j].op = "runShellCommands"
            => /\ at("commitAndPush") = {}
               /\ at("createPullRequest") = {}
               /\ state[j] # "completed"
               /\ pc[j] = 0 => state[j] = "failed"

C23_Witness ==
  \E j, k \in JobIds :
    /\ caught[j].op = "runShellCommands"
    /\ state[j] = "failed"
    /\ state[k] = "completed"
    /\ shellCommands[k] = "empty"
    /\ "runShellCommands" \notin Range(calls[k])

\* the run of job j has obtained its sandbox and not yet asked for its cleanup
Using(j) ==
  /\ state[j] = "active"
  /\ "getOrCreateSandbox" \in Range(calls[j])
  /\ "cleanup" \notin Range(calls[j])

\* C24: a job obtains and cleans up only the sandbox "job-<its own id>", so
\* the sandbox an active job is using is never released by the cleanup of
\* another job, also with several jobs running at a time.
C24_OwnSandboxOnly ==
  \A p \in DOMAIN sandboxes :
    \A j \in sandboxes[p].by :
      /\ p = <<"job", j>>
      /\ Using(j) => sandboxes[p].live

C24_Witness ==
  /\ state[1] = "failed"
  /\ "getOrCreateSandbox" \in Range(calls[1])
  /\ ~sandboxes[<<"job", 1>>].live
  /\ Using(2)
  /\ sandboxes[<<"job", 2>>].live

\* C25: a run generates one branch name, pushes that name and opens the pull
\* request with that name as head, and no two runs use the same name.
C25_OneBranchPerRun ==
  /\ \A j \in JobIds :
       /\ branch[j].generated <= 1
       /\ "commitAndPush" \in Range(calls[j])
            => /\ branch[j].generated = 1
               /\ branch[j].pushed # 0
       /\ "createPullRequest" \in Range(calls[j])
            => branch[j].head = branch[j].pushed
  /\ \A j, k \in JobIds :
       (j # k /\ branch[j].pushed # 0 /\ branch[k].pushed # 0)
         => /\ branch[j].pushed # branch[k].pushed
            /\ branch[j].head # branch[k].pushed

C25_Witness ==
  /\ state[1] = "active"
  /\ state[2] = "active"
  /\ "createPullRequest" \in Range(calls[1])
  /\ "createPullRequest" \in Range(calls[2])
  /\ branch[1].head = 2
  /\ branch[2].head = 1

\* C26: when every awaited call settles and the worker takes jobs whenever it
\* may, every enqueued job is claimed and then reaches completed or failed.
C26_EveryJobFinishes ==
  \A j \in JobIds :
    (state[j] = "waiting") ~> (runs[j] = 1 /\ Finished(j))

C26_Witness ==
  /\ \A j \in 1..PoolMaxJobs : Finished(j) /\ runs[j] = 1
  /\ state[PoolMaxJobs] = "completed"

\* C27: a job whose collaborator call never returns stays active and keeps
\* its slot for ever; while C jobs are stalled no waiting job is claimed;
\* while fewer are stalled, every waiting job is claimed and every run whose
\* calls settle comes to its end.
C27_StalledKeepsSlot ==
  /\ [](\A j \in stalled : state[j] = "active")
  /\ [][\A j \in stalled : j \in stalled' /\ state'[j] = "active" /\ pc'[j] = pc[j]]_vars
  /\ [][\A k \in JobIds :
          (Cardinality(stalled) = Concurrency /\ state[k] = "waiting")
            => state'[k] = "waiting"]_vars
  /\ \A k \in JobIds :
       /\ (state[k] = "waiting")
            ~> (state[k] # "waiting" \/ Cardinality(stalled) = Concurrency)
       /\ (state[k] = "active")
            ~> (Finished(k) \/ k \in stalled)

C27_Witness ==
  /\ stalled = {1}
  /\ Finished(2)
  /\ state[3] = "active"
  /\ runs[3] = 1

\* the step answered a push delivery that carries a valid signature and
\* repository information
ValidPush ==
  /\ resp'.route = "webhook"
  /\ resp'.req.event = "push"
  /\ resp'.req.signature = ValidSignature(resp'.req.body)
  /\ resp'.req.body.repository # Undefined

\* the step added one job to the queue, for the delivery's repository and
\* branch and under an id no queued job has
EnqueuedNewJob ==
  /\ Len(indexingQueue') = Len(indexingQueue) + 1
  /\ SubSeq(indexingQueue', 1, Len(indexingQueue)) = indexingQueue
  /\ LET job == indexingQueue'[Len(indexingQueue')]
     IN /\ job.event = "push"
        /\ job.projectId = resp'.req.body.repository.s
        /\ job.branch = "main"
        /\ job.id = resp'.jobId
        /\ \A i \in 1..Len(indexingQueue) : indexingQueue[i].id # job.id

\* C28 (as stated): every signature-valid push delivery carrying repository
\* information enqueues a new job with an id of its own, whether or not a job
\* for the same repository and branch is queued already.
C28_PushAlwaysEnqueues == [][ValidPush => EnqueuedNewJob]_vars

\* C28 (amended): as stated, except that a delivery whose enqueue fails is
\* answered 500 and adds no job.
C28_PushEnqueuesUnlessQueueFails ==
  [][ValidPush =>
       \/ resp'.status = 200 /\ EnqueuedNewJob
       \/ resp'.status = 500 /\ UNCHANGED indexingQueue]_vars

C28_Witness ==
  /\ resp.route = "webhook"
  /\ resp.req.event = "push"
  /\ resp.status = 200
  /\ resp.jobId = 2
  /\ Len(indexingQueue) = 2
  /\ indexingQueue[1].event = "push"
  /\ indexingQueue[2].event = "push"
  /\ indexingQueue[1].projectId = indexingQueue[2].projectId
  /\ indexingQueue[1].branch = indexingQueue[2].branch
  /\ indexingQueue[1].id # indexingQueue[2].id

\* C29: createPullRequest is invoked at most once per job; a completed job's
\* createPullRequest, updateProgress(100) and step-12 cleanup all returned,
\* no call of its run threw, and its result carries the url and the number
\* that createPullRequest returned.
C29_CompletedAfterPullRequest ==
  \A j \in JobIds :
    /\ Cardinality({i \in 1..Len(calls[j]) : calls[j][i] = "createPullRequest"}) <= 1
    /\ state[j] = "completed" =>
         /\ "createPullRequest" \in Range(calls[j])
         /\ pr[j].number = 6 + j
         /\ hist[j] # << >> /\ hist[j][Len(hist[j])] = 100
         /\ calls[j][Len(calls[j])] = "cleanup"
         /\ Cardinality({i \in 1..Len(calls[j]) : calls[j][i] = "cleanup"}) = 1
         /\ caught[j] = NoError
         /\ returnvalue[j] =
              [success |-> TRUE, prUrl |-> pr[j].url, prNumber |-> pr[j].number]

C29_Witness ==
  /\ state[1] = "completed"
  /\ state[2] = "completed"
  /\ returnvalue[1].prNumber = 7
  /\ returnvalue[2].prNumber = 8

====
